---- MODULE Spec2Model ----
(***************************************************************************)
(* Model of polish_clipboard.py: the session state (last_source,           *)
(* alternatives, alt_index), the clipboard, the two provider variants and  *)
(* the callbacks polish_from_clipboard, _cycle_suggestion, _on_quit and    *)
(* the single-shot polish_text.                                            *)
(*                                                                         *)
(* A text is a sequence of characters (one-character strings).  Python's   *)
(* None / Optional[str] is the empty sequence <<>> and Some(s) is <<s>>.   *)
(* alt_index is 0-based as in the source: alternatives[alt_index] is       *)
(* alternatives[alt_index + 1] here.                                       *)
(***************************************************************************)
EXTENDS Integers, Sequences, FiniteSets, TLC

VARIABLES
    PROVIDER,      \* configuration: POLISH_PROVIDER, lower-cased
    OPENAI_API_KEY, \* configuration: TRUE iff the credential is set and not empty
    NUM_ALTS,      \* configuration: POLISH_ALTS
    MAX_CHARS,     \* configuration: POLISH_MAX_CHARS
    argv,          \* <<>> (no argument: hotkey workflow) or <<t>> (single shot)
    last_source,   \* Optional text
    alternatives,  \* sequence of texts
    alt_index,     \* 0-based index
    clipboard,     \* the OS clipboard's text
    pc,            \* "import", "failed", "main", "listening", "calling", "exited";
                   \* "line162".."line166" where polish_from_clipboard is taken line by line
    caller,        \* which function awaits provider.rephrase: "clipboard", "polish_text", "none"
    req,           \* the text argument of the rephrase call in progress / last made
    n,             \* the n argument of that call
    before,        \* Optional: the session when the polish request in progress / last made began
    outputs,       \* OllamaProvider.rephrase: the local list outputs
    calls,         \* outbound provider requests issued by the latest callback
    raw,           \* raw completions received by the latest rephrase call
    returned,      \* Optional: the value the latest rephrase call returned
    ret,           \* Optional: the value polish_text returned
    event,         \* what the latest step did
    run,           \* consecutive cycle steps so far (saturating)
    startIdx       \* alt_index at the start of that run

vars == <<PROVIDER, OPENAI_API_KEY, NUM_ALTS, MAX_CHARS, argv, last_source,
          alternatives, alt_index, clipboard, pc, caller, req, n, before, outputs,
          calls, raw, returned, ret, event, run, startIdx>>

config == <<PROVIDER, OPENAI_API_KEY, NUM_ALTS, MAX_CHARS, argv>>
session == <<last_source, alternatives, alt_index>>

\* ------------------------------------------------------------- bounds
\* largest POLISH_ALTS the configurations explore
MaxAlts == 2
\* largest POLISH_MAX_CHARS the configurations explore
MaxChars == 2

\* ------------------------------------------------------------- texts
\* the marker _truncate appends (one character)
Ellipsis == "..."

\* texts the user may copy, or pass on the command line
UserTexts ==
    { <<>>, <<" ">>, <<"a">>, <<" ", "a", " ">>, <<"b", " ", "a", "b">> }

\* message contents a provider may answer with: None, or a text
RawContents ==
    { <<>>, << <<" ">> >>, << <<"a">> >>, << <<" ", "b", " ">> >> }

Max(a, b) == IF a >= b THEN a ELSE b

IsSpace(c) == c = " "

\* str.lstrip()
RECURSIVE lstrip(_)
lstrip(s) ==
    IF s # <<>> /\ IsSpace(Head(s)) THEN lstrip(Tail(s)) ELSE s

\* str.rstrip()
RECURSIVE rstrip(_)
rstrip(s) ==
    IF s # <<>> /\ IsSpace(s[Len(s)]) THEN rstrip(SubSeq(s, 1, Len(s) - 1)) ELSE s

\* str.strip()
strip(s) == rstrip(lstrip(s))

\* `x or ""` on an Optional text
OrEmpty(c) == IF c = <<>> THEN <<>> ELSE c[1]

\* mutant: the marker is counted in the limit
truncate_MarkerInLimit(text, limit) ==
    IF Len(text) <= limit THEN text ELSE SubSeq(text, 1, limit - 1) \o <<Ellipsis>>

\* _truncate(text, limit): text[:limit] + marker when text is longer than limit
_truncate(text, limit) ==
    IF Len(text) <= limit THEN text ELSE SubSeq(text, 1, limit) \o <<Ellipsis>>

\* sequences over S of length 0..k
SeqsUpTo(S, k) == UNION { [1..m -> S] : m \in 0..k }

\* ------------------------------------------------------------- providers
\* OpenAIProvider.rephrase, the loop over resp.choices: trimmed non-empty contents
RECURSIVE CollectChoices(_, _)
CollectChoices(choices, acc) ==
    IF choices = <<>> THEN acc
    ELSE LET content == strip(OrEmpty(Head(choices)))
         IN  CollectChoices(Tail(choices),
                            IF content # <<>> THEN Append(acc, content) ELSE acc)

\* mutant: no fallback to the input text
OrText_NoFallback(outs, text) == outs

\* `outputs or [text]`
OrText(outs, text) == IF outs # <<>> THEN outs ELSE <<text>>

\* OpenAIProvider.rephrase(text, n, ...) given the response's choices
OpenAIProvider_rephrase(text, choices) == OrText(CollectChoices(choices, <<>>), text)

\* OllamaProvider.rephrase, one pass of the loop body after ollama.chat returned r
OllamaAppend(outs, r) ==
    LET content == strip(OrEmpty(r))
    IN  IF content # <<>> THEN Append(outs, content) ELSE outs

\* mutant: one round too many
OllamaRounds_OneMore(k) == Max(1, k) + 1

\* range(max(1, n)): the number of ollama.chat requests of one rephrase call
OllamaRounds(k) == Max(1, k)

\* ------------------------------------------------------------- initial state
Init ==
    /\ PROVIDER \in {"openai", "ollama", "azure"}
    /\ OPENAI_API_KEY \in BOOLEAN
    /\ NUM_ALTS \in 0..MaxAlts
    /\ MAX_CHARS \in 1..MaxChars
    /\ argv \in {<<>>} \cup { <<t>> : t \in UserTexts }
    /\ clipboard \in UserTexts
    /\ last_source = <<>>
    /\ alternatives = <<>>
    /\ alt_index = 0
    /\ pc = "import"
    /\ caller = "none"
    /\ req = <<>>
    /\ n = 0
    /\ before = <<>>
    /\ outputs = <<>>
    /\ calls = 0
    /\ raw = <<>>
    /\ returned = <<>>
    /\ ret = <<>>
    /\ event = "init"
    /\ run = 0
    /\ startIdx = 0

\* the frame of the previous callback is gone when the next one starts
NoCall ==
    /\ caller' = "none"
    /\ req' = <<>>
    /\ n' = 0
    /\ before' = <<>>
    /\ outputs' = <<>>
    /\ calls' = 0
    /\ raw' = <<>>
    /\ returned' = <<>>

\* a step that is not a cycle ends the run of consecutive cycles
NoRun == run' = 0 /\ startIdx' = 0

\* one more cycle step in the current run
RunCap == MaxAlts + 2
CountRun ==
    /\ run' = IF run < RunCap THEN run + 1 ELSE RunCap
    /\ startIdx' = IF run = 0 THEN alt_index ELSE startIdx

\* ------------------------------------------------------------- module level
\* mutant: the credential is not looked at when the provider is constructed
ProviderOk_NoKeyCheck == PROVIDER \in {"openai", "ollama"}

\* get_provider(PROVIDER, MODEL) returns a provider (it raises RuntimeError otherwise)
ProviderOk ==
    \/ PROVIDER = "openai" /\ OPENAI_API_KEY
    \/ PROVIDER = "ollama"

\* provider = get_provider(PROVIDER, MODEL), run when the module is loaded
get_provider ==
    /\ pc = "import"
    /\ IF ProviderOk
       THEN pc' = "main" /\ event' = "provider"
       ELSE pc' = "failed" /\ event' = "config_error"
    /\ UNCHANGED <<config, session, clipboard, caller, req, n, before, outputs,
                   calls, raw, returned, ret, run, startIdx>>

\* ------------------------------------------------------------- __main__
\* no argument: main() starts the hotkey listener
main ==
    /\ pc = "main"
    /\ argv = <<>>
    /\ pc' = "listening"
    /\ event' = "main"
    /\ UNCHANGED <<config, session, clipboard, caller, req, n, before, outputs,
                   calls, raw, returned, ret, run, startIdx>>

\* mutant: the emptiness test comes before the trimming
polish_text_TestsUntrimmed ==
    /\ pc = "main"
    /\ argv # <<>>
    /\ LET text == strip(argv[1])
       IN  IF argv[1] = <<>>
           THEN /\ ret' = << <<>> >>
                /\ pc' = "exited"
                /\ event' = "text_empty"
                /\ UNCHANGED <<caller, req, n, calls>>
           ELSE /\ req' = _truncate(text, MAX_CHARS)
                /\ n' = 1
                /\ caller' = "polish_text"
                /\ calls' = 1
                /\ pc' = "calling"
                /\ event' = "text_start"
                /\ ret' = ret
    /\ UNCHANGED <<config, session, clipboard, before, outputs, raw, returned,
                   run, startIdx>>

\* polish_text(sys.argv[1]) up to the provider.rephrase call
polish_text ==
    /\ pc = "main"
    /\ argv # <<>>
    /\ LET text == strip(argv[1])
       IN  IF text = <<>>
           THEN /\ ret' = << <<>> >>
                /\ pc' = "exited"
                /\ event' = "text_empty"
                /\ UNCHANGED <<caller, req, n, calls>>
           ELSE /\ req' = _truncate(text, MAX_CHARS)
                /\ n' = 1
                /\ caller' = "polish_text"
                /\ calls' = 1
                /\ pc' = "calling"
                /\ event' = "text_start"
                /\ ret' = ret
    /\ UNCHANGED <<config, session, clipboard, before, outputs, raw, returned,
                   run, startIdx>>

\* ------------------------------------------------------------- callbacks
\* mutant: the index stops at the last suggestion instead of wrapping to 0
cycle_NoWrap ==
    IF alternatives = <<>>
    THEN UNCHANGED <<alt_index, clipboard>>
    ELSE /\ alt_index' = IF alt_index + 1 < Len(alternatives) THEN alt_index + 1 ELSE alt_index
         /\ clipboard' = alternatives[alt_index' + 1]

\* mutant: the suggestion is copied before the index is advanced
cycle_CopyFirst ==
    IF alternatives = <<>>
    THEN UNCHANGED <<alt_index, clipboard>>
    ELSE /\ alt_index' = (alt_index + 1) % Len(alternatives)
         /\ clipboard' = alternatives[alt_index + 1]

\* mutant: without suggestions the press clears the clipboard
cycle_ClearsWhenEmpty ==
    IF alternatives = <<>>
    THEN alt_index' = 0 /\ clipboard' = <<>>
    ELSE /\ alt_index' = (alt_index + 1) % Len(alternatives)
         /\ clipboard' = alternatives[alt_index' + 1]

\* _cycle_suggestion(): its effect on alt_index and the clipboard
_cycle_suggestion ==
    IF alternatives = <<>>
    THEN UNCHANGED <<alt_index, clipboard>>
    ELSE /\ alt_index' = (alt_index + 1) % Len(alternatives)
         /\ clipboard' = alternatives[alt_index' + 1]

\* mutant: the press is delivered while a polish callback is still running
OnCycle_WhileBusy ==
    /\ pc \in {"listening", "calling", "line162", "line163", "line164", "line166"}
    /\ _cycle_suggestion
    /\ event' = IF alternatives = <<>> THEN "cycle_none" ELSE "cycle"
    /\ IF alternatives = <<>> THEN NoRun ELSE CountRun
    /\ IF pc = "listening"
       THEN NoCall
       ELSE UNCHANGED <<caller, req, n, before, outputs, calls, raw, returned>>
    /\ UNCHANGED <<config, last_source, alternatives, pc, ret>>

\* the "next suggestion" hotkey
OnCycle ==
    /\ pc = "listening"
    /\ _cycle_suggestion
    /\ event' = IF alternatives = <<>> THEN "cycle_none" ELSE "cycle"
    /\ IF alternatives = <<>> THEN NoRun ELSE CountRun
    /\ NoCall
    /\ UNCHANGED <<config, last_source, alternatives, pc, ret>>

\* mutant: only the empty clipboard counts as blank
IsBlank_EmptyOnly(src) == src = <<>>

\* `not src or not src.strip()`
IsBlank(src) == src = <<>> \/ strip(src) = <<>>

\* mutant: the clipboard is compared with the first suggestion
IsRetrigger_First(src) ==
    /\ alternatives # <<>>
    /\ strip(src) = strip(strip(alternatives[1]))

\* the clipboard holds the current suggestion: the press is treated as a cycle press
IsRetrigger(src) ==
    /\ alternatives # <<>>
    /\ strip(src) = strip(strip(alternatives[alt_index + 1]))

\* the polish hotkey: polish_from_clipboard() up to the provider.rephrase call
polish_from_clipboard ==
    /\ pc = "listening"
    /\ LET src == clipboard
       IN  IF IsBlank(src)
           THEN /\ event' = "polish_empty"
                /\ NoCall
                /\ NoRun
                /\ UNCHANGED <<session, clipboard, pc>>
           ELSE IF IsRetrigger(src)
           THEN /\ _cycle_suggestion
                /\ event' = "polish_cycle"
                /\ NoCall
                /\ CountRun
                /\ UNCHANGED <<last_source, alternatives, pc>>
           ELSE /\ req' = _truncate(strip(src), MAX_CHARS)
                /\ n' = NUM_ALTS
                /\ caller' = "clipboard"
                /\ before' = <<session>>
                /\ calls' = 1
                /\ outputs' = <<>>
                /\ raw' = <<>>
                /\ returned' = <<>>
                /\ pc' = "calling"
                /\ event' = "polish_start"
                /\ NoRun
                /\ UNCHANGED <<session, clipboard>>
    /\ UNCHANGED <<config, ret>>

\* the quit hotkey: os._exit(0)
_on_quit ==
    /\ pc = "listening"
    /\ pc' = "exited"
    /\ event' = "quit"
    /\ NoCall
    /\ NoRun
    /\ UNCHANGED <<config, session, clipboard, ret>>

\* the user (or another program) copies something while the listener runs
ExternalCopy(t) ==
    /\ pc \in {"listening", "calling"}
    /\ caller # "polish_text"
    /\ clipboard' = t
    /\ event' = "ext"
    /\ IF pc = "listening"
       THEN NoCall
       ELSE UNCHANGED <<caller, req, n, before, outputs, calls, raw, returned>>
    /\ NoRun
    /\ UNCHANGED <<config, session, pc, ret>>

\* ------------------------------------------------------------- provider returns
\* mutant: polish_from_clipboard does not reset alt_index
Resume_KeepsIndex(res) ==
    IF caller = "clipboard"
    THEN /\ alternatives' = res
         /\ alt_index' = alt_index
         /\ IF res # <<>>
            THEN /\ clipboard' = res[0 + 1]
                 /\ last_source' = <<req>>
                 /\ event' = "polish_ok"
            ELSE /\ UNCHANGED <<clipboard, last_source>>
                 /\ event' = "polish_index_err"
         /\ pc' = "listening"
         /\ ret' = ret
    ELSE /\ ret' = << IF res # <<>> THEN res[1] ELSE req >>
         /\ event' = "text_ok"
         /\ pc' = "exited"
         /\ UNCHANGED <<session, clipboard>>

\* mutant: polish_from_clipboard records the clipboard's text, not the text sent
Resume_SourceFromClipboard(res) ==
    IF caller = "clipboard"
    THEN /\ alternatives' = res
         /\ alt_index' = 0
         /\ IF res # <<>>
            THEN /\ clipboard' = res[0 + 1]
                 /\ last_source' = <<strip(clipboard)>>
                 /\ event' = "polish_ok"
            ELSE /\ UNCHANGED <<clipboard, last_source>>
                 /\ event' = "polish_index_err"
         /\ pc' = "listening"
         /\ ret' = ret
    ELSE /\ ret' = << IF res # <<>> THEN res[1] ELSE req >>
         /\ event' = "text_ok"
         /\ pc' = "exited"
         /\ UNCHANGED <<session, clipboard>>

\* mutant: polish_from_clipboard does not copy the first suggestion
Resume_NoCopy(res) ==
    IF caller = "clipboard"
    THEN /\ alternatives' = res
         /\ alt_index' = 0
         /\ IF res # <<>>
            THEN /\ clipboard' = clipboard
                 /\ last_source' = <<req>>
                 /\ event' = "polish_ok"
            ELSE /\ UNCHANGED <<clipboard, last_source>>
                 /\ event' = "polish_index_err"
         /\ pc' = "listening"
         /\ ret' = ret
    ELSE /\ ret' = << IF res # <<>> THEN res[1] ELSE req >>
         /\ event' = "text_ok"
         /\ pc' = "exited"
         /\ UNCHANGED <<session, clipboard>>

\* what the caller of provider.rephrase does with the returned list res
Resume(res) ==
    IF caller = "clipboard"
    THEN \* polish_from_clipboard, lines 162-166 (IndexError on an empty list is caught)
         /\ alternatives' = res
         /\ alt_index' = 0
         /\ IF res # <<>>
            THEN /\ clipboard' = res[0 + 1]
                 /\ last_source' = <<req>>
                 /\ event' = "polish_ok"
            ELSE /\ UNCHANGED <<clipboard, last_source>>
                 /\ event' = "polish_index_err"
         /\ pc' = "listening"
         /\ ret' = ret
    ELSE \* polish_text, line 142
         /\ ret' = << IF res # <<>> THEN res[1] ELSE req >>
         /\ event' = "text_ok"
         /\ pc' = "exited"
         /\ UNCHANGED <<session, clipboard>>

\* mutant: a failed polish forgets the previous suggestions
Recover_Resets ==
    IF caller = "clipboard"
    THEN /\ event' = "polish_err"
         /\ pc' = "listening"
         /\ alternatives' = <<>>
         /\ alt_index' = 0
         /\ UNCHANGED <<last_source, clipboard, ret>>
    ELSE /\ ret' = <<req>>
         /\ event' = "text_err"
         /\ pc' = "exited"
         /\ UNCHANGED <<session, clipboard>>

\* mutant: polish_text returns the empty string when the provider raised
Recover_ReturnsEmpty ==
    IF caller = "clipboard"
    THEN /\ event' = "polish_err"
         /\ pc' = "listening"
         /\ UNCHANGED <<session, clipboard, ret>>
    ELSE /\ ret' = << <<>> >>
         /\ event' = "text_err"
         /\ pc' = "exited"
         /\ UNCHANGED <<session, clipboard>>

\* mutant: polish_text returns the untruncated text when the provider raised
Recover_ReturnsUntruncated ==
    IF caller = "clipboard"
    THEN /\ event' = "polish_err"
         /\ pc' = "listening"
         /\ UNCHANGED <<session, clipboard, ret>>
    ELSE /\ ret' = <<strip(argv[1])>>
         /\ event' = "text_err"
         /\ pc' = "exited"
         /\ UNCHANGED <<session, clipboard>>

\* what the caller does when provider.rephrase raised
Recover ==
    IF caller = "clipboard"
    THEN \* polish_from_clipboard, lines 167-168
         /\ event' = "polish_err"
         /\ pc' = "listening"
         /\ UNCHANGED <<session, clipboard, ret>>
    ELSE \* polish_text, lines 143-145
         /\ ret' = <<req>>
         /\ event' = "text_err"
         /\ pc' = "exited"
         /\ UNCHANGED <<session, clipboard>>

\* OpenAIProvider.rephrase: the one request returns with resp.choices = choices
OpenAIReturn(choices) ==
    /\ pc = "calling"
    /\ PROVIDER = "openai"
    /\ LET res == OpenAIProvider_rephrase(req, choices)
       IN  /\ raw' = choices
           /\ returned' = <<res>>
           /\ Resume(res)
    /\ NoRun
    /\ UNCHANGED <<config, caller, req, n, before, outputs, calls>>

\* OllamaProvider.rephrase: one ollama.chat request returns with message content r
OllamaChatReturn(r) ==
    /\ pc = "calling"
    /\ PROVIDER = "ollama"
    /\ raw' = Append(raw, r)
    /\ outputs' = OllamaAppend(outputs, r)
    /\ IF Len(raw') < OllamaRounds(n)
       THEN \* next round of the loop: the next request goes out
            /\ calls' = calls + 1
            /\ event' = "chat"
            /\ UNCHANGED <<session, clipboard, pc, ret, returned>>
       ELSE /\ returned' = << OrText(outputs', req) >>
            /\ Resume(OrText(outputs', req))
            /\ calls' = calls
    /\ NoRun
    /\ UNCHANGED <<config, caller, req, n, before>>

\* mutant: a request that raised is sent again, up to two more times
ProviderRaise_Retries ==
    /\ pc = "calling"
    /\ IF calls < 3
       THEN /\ calls' = calls + 1
            /\ event' = "retry"
            /\ UNCHANGED <<session, clipboard, pc, ret>>
       ELSE Recover /\ calls' = calls
    /\ NoRun
    /\ UNCHANGED <<config, caller, req, n, before, outputs, raw, returned>>

\* the request in flight raises (network, quota, malformed response)
ProviderRaise ==
    /\ pc = "calling"
    /\ Recover
    /\ NoRun
    /\ UNCHANGED <<config, caller, req, n, before, outputs, calls, raw, returned>>

Next ==
    \/ get_provider
    \/ main
    \/ polish_text
    \/ polish_from_clipboard
    \/ OnCycle
    \/ _on_quit
    \/ \E t \in UserTexts : ExternalCopy(t)
    \/ \E choices \in SeqsUpTo(RawContents, Max(n, 0)) : OpenAIReturn(choices)
    \/ \E r \in RawContents : OllamaChatReturn(r)
    \/ ProviderRaise

Spec == Init /\ [][Next]_vars

\* the program alone writes the clipboard: no external copy after the start
NextToolOnly ==
    \/ get_provider
    \/ main
    \/ polish_text
    \/ polish_from_clipboard
    \/ OnCycle
    \/ _on_quit
    \/ \E choices \in SeqsUpTo(RawContents, Max(n, 0)) : OpenAIReturn(choices)
    \/ \E r \in RawContents : OllamaChatReturn(r)
    \/ ProviderRaise

SpecToolOnly == Init /\ [][NextToolOnly]_vars

\* ------------------------------------------------------------- line by line
\* polish_from_clipboard's try block taken one line at a time, with a
\* clipboard write that may raise
\* what a line of the try block leaves alone
ByLineFrame == <<config, caller, req, n, before, outputs, calls, raw, returned, ret,
                 run, startIdx>>

\* OpenAIProvider.rephrase returns to line 162 (or to polish_text)
OpenAIReturnByLine(choices) ==
    /\ pc = "calling"
    /\ PROVIDER = "openai"
    /\ IF caller = "clipboard"
       THEN /\ raw' = choices
            /\ returned' = << OpenAIProvider_rephrase(req, choices) >>
            /\ pc' = "line162"
            /\ event' = "returned"
            /\ NoRun
            /\ UNCHANGED <<config, session, clipboard, caller, req, n, before,
                           outputs, calls, ret>>
       ELSE OpenAIReturn(choices)

\* OllamaProvider.rephrase: the last ollama.chat returns and rephrase returns to
\* line 162; earlier rounds (and polish_text) as before
OllamaChatReturnByLine(r) ==
    /\ pc = "calling"
    /\ PROVIDER = "ollama"
    /\ IF caller = "clipboard" /\ Len(raw) + 1 >= OllamaRounds(n)
       THEN /\ raw' = Append(raw, r)
            /\ outputs' = OllamaAppend(outputs, r)
            /\ returned' = << OrText(outputs', req) >>
            /\ pc' = "line162"
            /\ event' = "returned"
            /\ NoRun
            /\ UNCHANGED <<config, session, clipboard, caller, req, n, before,
                           calls, ret>>
       ELSE OllamaChatReturn(r)

\* alternatives = provider.rephrase(...)
Line162 ==
    /\ pc = "line162"
    /\ alternatives' = returned[1]
    /\ pc' = "line163"
    /\ event' = "line162"
    /\ UNCHANGED <<ByLineFrame, last_source, alt_index, clipboard>>

\* alt_index = 0
Line163 ==
    /\ pc = "line163"
    /\ alt_index' = 0
    /\ pc' = "line164"
    /\ event' = "line163"
    /\ UNCHANGED <<ByLineFrame, last_source, alternatives, clipboard>>

\* pyperclip.copy(alternatives[alt_index]) (IndexError on an empty list is caught)
Line164 ==
    /\ pc = "line164"
    /\ IF alternatives # <<>>
       THEN /\ clipboard' = alternatives[alt_index + 1]
            /\ pc' = "line166"
            /\ event' = "line164"
       ELSE /\ clipboard' = clipboard
            /\ pc' = "listening"
            /\ event' = "polish_index_err"
    /\ UNCHANGED <<ByLineFrame, session>>

\* pyperclip.copy raises: the except clause prints and the callback returns
Line164Raises ==
    /\ pc = "line164"
    /\ alternatives # <<>>
    /\ pc' = "listening"
    /\ event' = "polish_copy_err"
    /\ UNCHANGED <<ByLineFrame, session, clipboard>>

\* last_source = clean
Line166 ==
    /\ pc = "line166"
    /\ last_source' = <<req>>
    /\ pc' = "listening"
    /\ event' = "polish_ok"
    /\ UNCHANGED <<ByLineFrame, alternatives, alt_index, clipboard>>

NextByLine ==
    \/ get_provider
    \/ main
    \/ polish_text
    \/ polish_from_clipboard
    \/ OnCycle
    \/ _on_quit
    \/ \E t \in UserTexts : ExternalCopy(t)
    \/ \E choices \in SeqsUpTo(RawContents, Max(n, 0)) : OpenAIReturnByLine(choices)
    \/ \E r \in RawContents : OllamaChatReturnByLine(r)
    \/ ProviderRaise
    \/ Line162
    \/ Line163
    \/ Line164
    \/ Line164Raises
    \/ Line166

SpecByLine == Init /\ [][NextByLine]_vars

\* ============================================================= properties
\* the steps in which the dispatcher delivers the polish hotkey
PolishPress ==
    pc = "listening" /\ event' \in {"polish_empty", "polish_cycle", "polish_start"}

\* the steps in which the dispatcher delivers the "next suggestion" hotkey
CyclePress ==
    pc = "listening" /\ event' \in {"cycle", "cycle_none"}

\* the index one cycle moves to
NextIndex == (alt_index + 1) % Len(alternatives)

\* C1: whenever alternatives is non-empty, 0 <= alt_index < len(alternatives),
\* in every state reachable by polish presses (provider success or failure),
\* cycle presses and external clipboard changes.
C1_IndexInBounds ==
    alternatives # <<>> => (0 <= alt_index /\ alt_index < Len(alternatives))

\* a cycle press has selected the last of two suggestions
C1_Witness ==
    /\ event = "cycle"
    /\ Len(alternatives) = 2
    /\ alt_index = Len(alternatives) - 1

C3_RetriggerIsCycle ==
    [][ (PolishPress /\ alternatives # <<>> /\ clipboard = alternatives[alt_index + 1])
            => /\ alt_index' = NextIndex
               /\ clipboard' = alternatives[NextIndex + 1]
               /\ alternatives' = alternatives
               /\ last_source' = last_source
               /\ pc' = "listening"
               /\ calls' = 0
      ]_vars

\* a polish press that cycled from the second suggestion back to the first
C3_Witness ==
    /\ event = "polish_cycle"
    /\ Len(alternatives) = 2
    /\ alternatives[1] # alternatives[2]
    /\ alt_index = 0
    /\ startIdx = 1
    /\ clipboard = alternatives[1]

\* C4: with k >= 1 alternatives a cycle press sets alt_index to
\* (alt_index + 1) mod k and writes the newly selected suggestion to the
\* clipboard; from the last index it goes to 0, and k consecutive cycles
\* bring alt_index back to where it started.
C4_CycleCircular ==
    /\ [][ (CyclePress /\ alternatives # <<>>)
              => /\ alt_index' = (alt_index + 1) % Len(alternatives)
                 /\ clipboard' = alternatives[alt_index' + 1]
                 /\ (alt_index = Len(alternatives) - 1 => alt_index' = 0)
         ]_vars
    /\ [](run > 0 /\ run = Len(alternatives) => alt_index = startIdx)

\* two cycle presses over two suggestions, started from the second one
C4_Witness ==
    /\ event = "cycle"
    /\ Len(alternatives) = 2
    /\ run = 2
    /\ startIdx = 1
    /\ alt_index = 1
    /\ clipboard = alternatives[2]

\* C5 as stated: with k > 1 alternatives a cycle press always changes the
\* clipboard content.
C5_Original ==
    [][ (CyclePress /\ Len(alternatives) > 1) => clipboard' # clipboard ]_vars

\* C5 amended: with k > 1 alternatives a cycle press puts the newly selected
\* suggestion on the clipboard, so the content changes whenever that
\* suggestion differs from what the clipboard held (it stays the same when the
\* provider returned equal suggestions or the clipboard already held it).
C5_CycleChangesClipboard ==
    [][ (CyclePress /\ Len(alternatives) > 1)
            => /\ clipboard' = alternatives[NextIndex + 1]
               /\ (alternatives[NextIndex + 1] # clipboard => clipboard' # clipboard)
      ]_vars

\* a cycle press over two different suggestions has replaced the first by the second
C5_Witness ==
    /\ event = "cycle"
    /\ Len(alternatives) = 2
    /\ alternatives[1] # alternatives[2]
    /\ run = 1
    /\ startIdx = 0
    /\ alt_index = 1
    /\ clipboard = alternatives[2]

\* the steps of a clipboard-triggered polish whose provider call raises
RaisingPolishStep ==
    \/ PolishPress /\ pc' = "calling"
    \/ pc = "calling" /\ caller = "clipboard" /\ event' \in {"chat", "polish_err"}

\* C6: when the provider call raises during a clipboard-triggered polish, no
\* step of that polish changes alternatives, alt_index, last_source or the
\* clipboard, and the listener goes on.
C6_FailureKeepsState ==
    [][ /\ RaisingPolishStep
            => UNCHANGED <<alternatives, alt_index, last_source, clipboard>>
        /\ (pc = "calling" /\ caller = "clipboard" /\ event' = "polish_err")
            => pc' = "listening"
      ]_vars

\* the second ollama request of a polish raised; the older list and index stand
C6_Witness ==
    /\ event = "polish_err"
    /\ pc = "listening"
    /\ Len(alternatives) = 2
    /\ alt_index = 1
    /\ last_source # <<>>
    /\ last_source[1] # req
    /\ outputs # <<>>

\* a text of spaces only (or no text)
AllSpaces(t) == \A i \in 1..Len(t) : t[i] = " "

\* C7: a polish press with an empty or whitespace-only clipboard sends no
\* provider request and leaves alternatives, alt_index, last_source and the
\* clipboard as they were, in every session state.
C7_BlankClipboardNoChange ==
    [][ (PolishPress /\ AllSpaces(clipboard))
            => /\ UNCHANGED <<alternatives, alt_index, last_source, clipboard>>
               /\ pc' = "listening"
               /\ calls' = 0
      ]_vars

\* a polish press on a whitespace-only clipboard while suggestions exist
C7_Witness ==
    /\ event = "polish_empty"
    /\ clipboard = <<" ">>
    /\ Len(alternatives) = 2
    /\ alt_index = 1
    /\ calls = 0

\* C8: a cycle press while alternatives is empty changes none of alt_index,
\* alternatives, last_source and the clipboard.
C8_CycleEmptyNoOp ==
    [][ (CyclePress /\ alternatives = <<>>)
            => UNCHANGED <<alt_index, alternatives, last_source, clipboard>>
      ]_vars

\* a cycle press before any polish, with text on the clipboard
C8_Witness ==
    /\ event = "cycle_none"
    /\ alternatives = <<>>
    /\ clipboard # <<>>
    /\ alt_index = 0

\* a text with no space at either end
Trimmed(t) == t = <<>> \/ (t[1] # " " /\ t[Len(t)] # " ")

\* a completion that is kept: not empty once trimmed
IsUsable(c) == c # <<>>

\* the completions of the latest rephrase call, trimmed, None read as ""
TrimmedCompletions == [i \in 1..Len(raw) |-> strip(OrEmpty(raw[i]))]

\* C9: for both provider variants a rephrase call that returns never returns
\* an empty list: it returns the non-empty trimmed completions, in order, and
\* exactly [text] when every completion is empty or whitespace-only.
C9_RephraseNeverEmpty ==
    returned # <<>> =>
        LET res == returned[1]
            usable == SelectSeq(TrimmedCompletions, IsUsable)
        IN  /\ res # <<>>
            /\ (usable = <<>> => res = <<req>>)
            /\ (usable # <<>> =>
                   /\ res = usable
                   /\ \A i \in 1..Len(res) : res[i] # <<>> /\ Trimmed(res[i]))

\* two ollama requests answered None and whitespace: the call fell back to [text]
C9_Witness ==
    /\ PROVIDER = "ollama"
    /\ event = "polish_ok"
    /\ raw = << <<>>, << <<" ">> >> >>
    /\ returned = << <<req>> >>
    /\ alternatives = <<req>>
    /\ req # <<>>

\* C10 as stated: for every non-empty input text t, polish_text returns a
\* non-empty string.
C10_Original ==
    (argv # <<>> /\ argv[1] # <<>> /\ ret # <<>>) => ret[1] # <<>>

\* C10 amended: for every input text t that is non-empty after trimming, and
\* n = 1, polish_text returns a non-empty string, which is either a trimmed
\* provider completion or t trimmed and truncated.
C10_PolishTextNonEmpty ==
    (argv # <<>> /\ ~AllSpaces(argv[1]) /\ ret # <<>>) =>
        /\ n = 1
        /\ ret[1] # <<>>
        /\ \/ ret[1] = _truncate(strip(argv[1]), MAX_CHARS)
           \/ \E j \in 1..Len(raw) : ret[1] = TrimmedCompletions[j]

\* polish_text sent a truncated text and returned the provider's rewrite
C10_Witness ==
    /\ event = "text_ok"
    /\ argv = << <<"b", " ", "a", "b">> >>
    /\ req[Len(req)] = Ellipsis
    /\ ret # <<>>
    /\ ret[1] = <<"b">>

\* C11: for every empty or whitespace-only input polish_text returns the empty
\* string and the provider is never invoked.
C11_BlankTextNoCall ==
    (argv # <<>> /\ AllSpaces(argv[1])) =>
        /\ pc \in {"import", "failed", "main", "exited"}
        /\ calls = 0
        /\ raw = <<>>
        /\ (pc = "exited" => ret = << <<>> >>)

\* polish_text has returned "" for a text of one space
C11_Witness ==
    /\ argv = << <<" ">> >>
    /\ pc = "exited"
    /\ event = "text_empty"
    /\ ret = << <<>> >>
    /\ calls = 0

\* C12: polish_text never raises to its caller: it always ends by returning a
\* value, which is the trimmed and truncated input when the provider call
\* raised; and no step of it touches alternatives, alt_index, last_source or
\* the clipboard.
C12_PolishTextNeverRaises ==
    /\ []((argv # <<>> /\ pc = "exited") => ret # <<>>)
    /\ [](event = "text_err" =>
            /\ pc = "exited"
            /\ ret # <<>>
            /\ LET t == strip(argv[1])
               IN  ret[1] = IF Len(t) <= MAX_CHARS
                            THEN t
                            ELSE SubSeq(t, 1, MAX_CHARS) \o <<Ellipsis>>)
    /\ [][ argv # <<>> => UNCHANGED <<alternatives, alt_index, last_source, clipboard>> ]_vars

\* the provider raised on a truncated text and polish_text returned that text
C12_Witness ==
    /\ event = "text_err"
    /\ pc = "exited"
    /\ argv = << <<"b", " ", "a", "b">> >>
    /\ ret = <<req>>
    /\ Len(req) = MAX_CHARS + 1
    /\ clipboard # <<>>

\* the text a step hands to provider.rephrase, and the input it was made from
SendsFrom(input) ==
    /\ pc' = "calling"
    /\ pc # "calling"
    /\ LET t == strip(input)
       IN  /\ Len(t) <= MAX_CHARS => req' = t
           /\ Len(t) > MAX_CHARS =>
                /\ Len(req') = MAX_CHARS + 1
                /\ SubSeq(req', 1, MAX_CHARS) = SubSeq(t, 1, MAX_CHARS)
                /\ req'[MAX_CHARS + 1] = Ellipsis

\* C13: on both paths the trimmed input, when longer than MAX_CHARS, is cut
\* to its first MAX_CHARS characters with the marker appended before it is
\* sent to the provider; a trimmed input of at most MAX_CHARS is sent as it is.
C13_Truncation ==
    [][ (pc # "calling" /\ pc' = "calling")
            => IF argv # <<>> THEN SendsFrom(argv[1]) ELSE SendsFrom(clipboard)
      ]_vars

\* a clipboard text of four characters was sent as two characters and the marker
C13_Witness ==
    /\ event = "polish_start"
    /\ pc = "calling"
    /\ clipboard = <<"b", " ", "a", "b">>
    /\ MAX_CHARS = 2
    /\ req = <<"b", " ", Ellipsis>>

\* C14 as stated: every hotkey trigger issues at most one outbound provider
\* request.
C14_Original ==
    argv = <<>> => calls <= 1

\* the outbound requests one rephrase call makes
RequestsPerCall == IF PROVIDER = "ollama" THEN Max(1, NUM_ALTS) ELSE 1

\* C14 amended: every hotkey trigger makes at most one rephrase call: none for
\* an empty clipboard, a re-trigger handled as cycle, a cycle or a quit; for a
\* new polish one outbound request with the cloud variant and max(1, NUM_ALTS)
\* sequential requests with the local-daemon variant; a request that raised
\* ends the callback and is never sent again.
C14_RequestsPerTrigger ==
    /\ [](argv = <<>> => calls <= RequestsPerCall)
    /\ [](event \in {"polish_empty", "polish_cycle", "cycle", "cycle_none", "quit"}
             => calls = 0)
    /\ [](event = "polish_ok" => calls = RequestsPerCall)
    /\ [][ (pc = "calling" /\ caller = "clipboard" /\ pc' # "calling" /\ event' # "ext")
              => calls' = calls /\ pc' = "listening"
         ]_vars
    /\ [][ (pc = "calling" /\ caller = "clipboard" /\ event' = "polish_err")
              => calls' = calls /\ pc' = "listening"
         ]_vars

\* the second of two ollama requests raised: two requests went out, none again
C14_Witness ==
    /\ PROVIDER = "ollama"
    /\ NUM_ALTS = 2
    /\ event = "polish_err"
    /\ pc = "listening"
    /\ calls = 2
    /\ Len(raw) = 1

\* the configuration get_provider rejects: an unknown provider name, or the
\* cloud provider without its credential
BadConfiguration ==
    \/ PROVIDER \notin {"openai", "ollama"}
    \/ PROVIDER = "openai" /\ ~OPENAI_API_KEY

\* C16: with an unknown provider name, or the cloud provider and no
\* credential, the program stops with a configuration error while the module
\* is loaded: the listener is never started, no callback (and no polish_text)
\* runs, no provider request is made and nothing is touched.
C16_BadConfigFailsAtStartup ==
    BadConfiguration =>
        /\ pc \in {"import", "failed"}
        /\ event \in {"init", "config_error"}
        /\ calls = 0
        /\ alternatives = <<>>
        /\ last_source = <<>>
        /\ ret = <<>>

\* the cloud provider without credential: stopped with a configuration error
C16_Witness ==
    /\ PROVIDER = "openai"
    /\ ~OPENAI_API_KEY
    /\ pc = "failed"
    /\ event = "config_error"

\* C17: the local-daemon rephrase(text, n) sends exactly n requests for
\* n >= 1 and one for n < 1, one after the other (a request goes out only
\* when every earlier one has been answered), each for the same text; when a
\* request raises, the call returns nothing: the partial outputs are dropped.
C17_OllamaSequential ==
    /\ []((PROVIDER = "ollama" /\ pc = "calling")
             => /\ calls = Len(raw) + 1
                /\ calls <= (IF n >= 1 THEN n ELSE 1)
                /\ returned = <<>>)
    /\ []((PROVIDER = "ollama" /\ returned # <<>>)
             => /\ calls = (IF n >= 1 THEN n ELSE 1)
                /\ Len(raw) = calls)
    /\ []((PROVIDER = "ollama" /\ event \in {"polish_err", "text_err"})
             => /\ returned = <<>>
                /\ calls = Len(raw) + 1)
    /\ [][ (PROVIDER = "ollama" /\ pc = "calling" /\ pc' = "calling")
              => /\ req' = req /\ n' = n
                 /\ calls' \in {calls, calls + 1}
                 /\ (calls' = calls + 1 => Len(raw') = calls)
         ]_vars

\* the second of two requests raised after a usable first answer: nothing returned
C17_Witness ==
    /\ PROVIDER = "ollama"
    /\ n = 2
    /\ event = "polish_err"
    /\ calls = 2
    /\ outputs # <<>>
    /\ returned = <<>>
    /\ alternatives = <<>>

\* C18: once alternatives is non-empty it never becomes empty again, whatever
\* polish presses (success, failure, empty clipboard), cycle presses, external
\* copies and quit follow.
C18_NeverBackToIdle ==
    [][ alternatives # <<>> => alternatives' # <<>> ]_vars

\* a polish whose completions were all blank replaced an older list by [text]
C18_Witness ==
    /\ event = "polish_ok"
    /\ before # <<>>
    /\ before[1][2] # <<>>
    /\ raw # <<>>
    /\ \A i \in 1..Len(raw) : TrimmedCompletions[i] = <<>>
    /\ alternatives = <<req>>
    /\ alternatives # before[1][2]

CallbackBegins ==
    event' \in {"polish_empty", "polish_cycle", "polish_start",
                "cycle", "cycle_none", "quit"}

C20_AllOrNothing ==
    event = "polish_copy_err" =>
        /\ before # <<>>
        /\ <<last_source, alternatives, alt_index>> = before[1]

====
